---- MODULE Spec2Model ----
(***************************************************************************)
(* The upload panel of the Construction GraphRAG dashboard                 *)
(* (frontend/src/components/DocumentUpload.jsx): the React state of the    *)
(* panel, the submit handler and the two job pollers, pollJobCompletion    *)
(* (one file) and pollJobsCompletion (several files); and its query panel  *)
(* (QueryPanel), whose results go to App's answer; and App's health check  *)
(* and metrics refresh.                                                    *)
(*                                                                         *)
(* A file is known by its name, a number.  A job identifier is the pair    *)
(* <<batch, position>> the backend hands out; <<>> stands for "no job      *)
(* identifier".  An optional value (progress, the upload in flight) is a   *)
(* sequence of length 0 or 1.  A status text is the pair <<kind, args>>    *)
(* of the template that produced it and the numbers put into it.  A        *)
(* question is the sequence of its characters.                             *)
(***************************************************************************)
EXTENDS Integers, Sequences, FiniteSets, TLC

VARIABLES
    files,              \* useState([])    : the selected files
    uploading,          \* useState(false)
    uploadStatus,       \* useState('')
    progress,           \* useState(null)
    processingDetails,  \* useState([])
    inflight,           \* the POSTs of the running calls of handleUpload, oldest first,
                        \* each with the files its call captured
    loops,              \* one entry per accepted batch: the closure of its poller
    requests,           \* the GET /job requests of the rounds of checkJobs that are running
    question,           \* QueryPanel useState('')
    querying,           \* QueryPanel useState(false)
    queries,            \* the POST /query requests in flight, with the question sent
    handled,            \* where the last call of handleQuery went, and what called it
    answer,             \* App useState(null)
    metrics,            \* App useState(null)
    backendError,       \* App useState(null)
    loading,            \* App useState(true)
    fetches,            \* the GET /health and GET /metrics requests in flight
    logged              \* the last console.error of fetchMetrics

uploadPanel ==
    <<files, uploading, uploadStatus, progress, processingDetails, inflight, loops>>

queryPanel == <<question, querying, queries, handled, answer>>

app == <<metrics, backendError, loading, fetches, logged>>

vars == <<files, uploading, uploadStatus, progress, processingDetails, inflight, loops,
          requests, question, querying, queries, handled, answer,
          metrics, backendError, loading, fetches, logged>>

display == <<uploadStatus, progress, processingDetails>>

----------------------------------------------------------------------------
(* Bounds of the model *)

\* largest accepted selection the user makes
MaxSel == 2
\* batches submitted in one behaviour
MaxBatches == 2
\* rounds of status requests that Spec follows
RoundsSeen == 3
\* rounds of a multi-file poll loop that SpecLimit follows
MaxMultiRounds == 62
\* characters of the longest question typed
MaxQuestionLen == 2
\* POST /query requests in flight at a time
MaxQueries == 2
\* different metrics snapshots the backend reports
MaxSnapshots == 2
\* GET /health and GET /metrics requests in flight at a time
MaxFetches == 2

(* Program constants *)

\* const maxAttempts = 60
maxAttempts == 60
\* files.length > 20
MaxFilesPerUpload == 20

----------------------------------------------------------------------------
(* Values *)

Status(kind, args) == <<kind, args>>

Kind(st) == st[1]

NoJob == <<>>

NoError == "none"

JobError == "job error"

RejectError == "not queued"

\* The selection of n files: names n, n-1, .. 1, so that a name never equals
\* its position by accident.
Selection(n) == [i \in 1..n |-> n + 1 - i]

Selections == {Selection(n) : n \in 0..MaxSel} \cup {Selection(MaxFilesPerUpload + 1)}

\* Math.floor(a / b) and Math.round(100 * c / t) on non-negative numbers
Floor(a, b) == a \div b

Percent(c, t) == (200 * c + t) \div (2 * t)

RECURSIVE SelectSeqIdx(_, _, _)
\* the subsequence of s at the positions of keep, in order
SelectSeqIdx(s, keep, i) ==
    IF i > Len(s) THEN <<>>
    ELSE (IF i \in keep THEN <<s[i]>> ELSE <<>>) \o SelectSeqIdx(s, keep, i + 1)

Count(s, v) == Cardinality({i \in 1..Len(s) : s[i] = v})

----------------------------------------------------------------------------
(* The backend, as the HTTP contract describes it *)

ServerStatus == {"queued", "started", "finished", "failed"}

Terminal(s) == s \in {"finished", "failed"}

\* A job that has reached a terminal status stays there ("Terminal state: a
\* job status after which no further transitions occur"); the backend's record
\* of a job is that status, or "open" while it has none.
Open == "open"

\* the statuses a job with record s can answer a later request with
Later(s) == IF s = Open THEN ServerStatus ELSE {s}

\* the record after the job answered with status a
Settle(a) == IF Terminal(a) THEN a ELSE Open

\* POST /upload-multiple: one details entry per file, in order; the files of
\* `queued` got a job, the others an error
UploadDetails(b, fs, queued) ==
    [i \in 1..Len(fs) |->
        [filename |-> fs[i],
         status   |-> IF i \in queued THEN "queued" ELSE "error",
         job_id   |-> IF i \in queued THEN <<b, i>> ELSE NoJob,
         error    |-> IF i \in queued THEN NoError ELSE RejectError]]

JobIdsOf(details) ==
    LET ids == [i \in 1..Len(details) |-> details[i].job_id]
    IN  SelectSeqIdx(ids, {i \in 1..Len(details) : details[i].job_id # NoJob}, 1)

\* what one GET /job/{id} comes to in the client: a status of the backend, or
\* Thrown when fetch or response.json() throws (network error, unparsable body)
Thrown == "thrown"

Outcomes == ServerStatus \cup {Thrown}

----------------------------------------------------------------------------
(* The panel *)

Undefined == -1

NoProgress == <<>>

Entry(filename, status, jobId, error) ==
    [filename |-> filename, status |-> status, jobId |-> jobId, error |-> error]

\* the closure of one poller: its arguments, `attempts`, whether a timer for
\* its next round is pending, and what it has done so far (rounds of status
\* requests issued, the requests of the last round that threw, completion
\* callbacks scheduled, give-up messages shown); sent is the files of the
\* batch as submitted, server the backend's record of its jobs, as far as it
\* has answered
Loop(sent, kind, jobIds, fileDetails, filename, started) ==
    [sent        |-> sent,
     kind        |-> kind,
     jobIds      |-> jobIds,
     fileDetails |-> fileDetails,
     filename    |-> filename,
     attempts    |-> 0,
     timer       |-> started,
     rounds      |-> 0,
     threw       |-> {},
     callbacks   |-> 0,
     timeouts    |-> 0,
     server      |-> [i \in 1..Len(jobIds) |-> Open]]

\* no answer yet, no call of handleQuery yet
NoAnswer == <<>>

NoCall == <<>>

InitQuery ==
    /\ question = <<>>
    /\ querying = FALSE
    /\ queries = <<>>
    /\ handled = NoCall
    /\ answer = NoAnswer

\* null
NoMetrics == <<>>

NoBackendError == <<>>

\* a request of App: what it asks for and what started it
Fetch(call, by) == [call |-> call, by |-> by]

\* App after its first render and its effect: checkBackend is running
InitApp ==
    /\ metrics = NoMetrics
    /\ backendError = NoBackendError
    /\ loading = TRUE
    /\ fetches = <<Fetch("health", "mount")>>
    /\ logged = <<>>

Init ==
    /\ files = <<>>
    /\ uploading = FALSE
    /\ uploadStatus = Status("", <<>>)
    /\ progress = NoProgress
    /\ processingDetails = <<>>
    /\ inflight = <<>>
    /\ loops = <<>>
    /\ requests = {}
    /\ InitQuery
    /\ InitApp

\* handleFileChange
handleFileChange(selectedFiles) ==
    /\ files' = selectedFiles
    /\ uploadStatus' = Status("", <<>>)
    /\ progress' = NoProgress
    /\ processingDetails' = <<>>
    /\ UNCHANGED <<uploading, inflight, loops>>

\* the button not disabled during an upload
UploadDisabledWhenEmpty == Len(files) = 0

\* disabled={files.length === 0 || uploading}
UploadDisabled == Len(files) = 0 \/ uploading

\* the limit off by one
TooManyOffByOne(n) == n > MaxFilesPerUpload + 1

\* files.length > 20
TooMany(n) == n > MaxFilesPerUpload

\* handleUpload up to its fetch
handleUpload ==
    /\ ~UploadDisabled
    /\ IF Len(files) = 0
       THEN /\ uploadStatus' = Status("Please select at least one file", <<>>)
            /\ UNCHANGED <<files, uploading, progress, processingDetails, inflight, loops>>
       ELSE IF TooMany(Len(files))
       THEN /\ uploadStatus' = Status("Maximum 20 files allowed per upload", <<>>)
            /\ UNCHANGED <<files, uploading, progress, processingDetails, inflight, loops>>
       ELSE /\ uploading' = TRUE
            /\ uploadStatus' = Status("Uploading files...", <<>>)
            /\ processingDetails' = <<>>
            /\ inflight' = Append(inflight, files)
            /\ UNCHANGED <<files, progress, loops>>

\* What a POST that does not succeed comes to: fetch rejects (a network
\* error, with the message of its TypeError), or the response has a non-2xx
\* status and a body that response.json() parses or not, with or without a
\* detail (the empty detail stands for none)
NoDetail == ""

FailedResponses ==
    {[kind |-> "network", status |-> 0, parsable |-> FALSE, detail |-> NoDetail,
      message |-> "Failed to fetch"]}
    \cup {[kind |-> "http", status |-> st, parsable |-> FALSE, detail |-> NoDetail,
           message |-> ""] : st \in {400, 500}}
    \cup {[kind |-> "http", status |-> st, parsable |-> TRUE, detail |-> d,
           message |-> ""] : st \in {400, 500},
                             d \in {NoDetail, "Only PDF files are supported"}}

\* the constant message of api.uploadDocument
ErrorMessageGeneric(response) == "Upload failed"

\* the message of the error handleUpload's catch gets:
\* errorData = await response.json().catch(() => ({}));
\* throw new Error(errorData.detail || `HTTP ${response.status}`)
ErrorMessage(response) ==
    IF response.kind = "network" THEN response.message
    ELSE LET errorData == IF response.parsable THEN response.detail ELSE NoDetail
         IN  IF errorData # NoDetail THEN errorData
             ELSE "HTTP " \o ToString(response.status)

\* handleUpload from a failed fetch or a non-2xx response on: catch, finally
uploadFailed(response) ==
    /\ inflight # <<>>
    /\ uploadStatus' = Status("Upload failed", <<ErrorMessage(response)>>)
    /\ uploading' = FALSE
    /\ inflight' = Tail(inflight)
    /\ UNCHANGED <<files, progress, processingDetails, loops>>

\* data.details.map(detail => ...)
SubmittedDetails(details) ==
    [i \in 1..Len(details) |->
        Entry(details[i].filename,
              IF details[i].status = "queued" THEN "processing" ELSE "failed",
              details[i].job_id,
              details[i].error)]

\* handleUpload from the 2xx response of POST /upload on
uploadedOne(hasJob) ==
    /\ inflight # <<>>
    /\ Len(inflight[1]) = 1
    /\ LET sent  == inflight[1]
           b     == Len(loops) + 1
           jobId == IF hasJob THEN <<b, 1>> ELSE NoJob
       IN  /\ uploadStatus' = Status("Upload complete! Processing document...", <<>>)
           /\ processingDetails' = <<Entry(sent[1], "processing", jobId, NoError)>>
           /\ loops' = Append(loops,
                   Loop(sent, "single", IF hasJob THEN <<jobId>> ELSE <<>>, <<>>, sent[1], hasJob))
    /\ files' = <<>>
    /\ uploading' = FALSE
    /\ inflight' = Tail(inflight)
    /\ UNCHANGED progress

\* handleUpload from the 2xx response of POST /upload-multiple on
uploadedMany(queued) ==
    /\ inflight # <<>>
    /\ Len(inflight[1]) > 1
    /\ LET sent    == inflight[1]
           b       == Len(loops) + 1
           details == UploadDetails(b, sent, queued)
           job_ids == JobIdsOf(details)
       IN  /\ progress' = <<[total      |-> Len(sent),
                             successful |-> Cardinality(queued),
                             failed     |-> Len(sent) - Cardinality(queued),
                             completed  |-> 0]>>
           /\ uploadStatus' = Status("Uploaded files. Processing...",
                                     <<Cardinality(queued), Len(sent)>>)
           /\ processingDetails' = SubmittedDetails(details)
           /\ loops' = Append(loops,
                   Loop(sent, "multi", job_ids, details, Undefined, Len(job_ids) > 0))
    /\ files' = <<>>
    /\ uploading' = FALSE
    /\ inflight' = Tail(inflight)

----------------------------------------------------------------------------
(* pollJobCompletion: the poller of a single file *)

\* the branch checkStatus takes on a parsed response
SingleBranch(status, attempts) ==
    IF status = "finished" THEN "finished"
    ELSE IF status = "failed" THEN "failed"
    ELSE IF attempts < maxAttempts THEN "again"
    ELSE "giveup"

\* whether the branch leaves a timer for checkStatus behind
SingleReschedules(branch) == branch = "again"

\* whether the branch schedules onUploadSuccess
SingleNotifies(branch) == branch = "finished"

\* one run of checkStatus on the outcome of its request
checkStatus(b, outcome) ==
    LET l      == loops[b]
        branch == SingleBranch(outcome, l.attempts)
        att    == IF branch = "again" THEN l.attempts + 1 ELSE l.attempts
    IN  /\ l.kind = "single"
        /\ l.timer
        /\ outcome \in Later(l.server[1]) \cup {Thrown}
        /\ IF outcome = Thrown
           THEN /\ loops' = [loops EXCEPT ![b].timer  = FALSE,
                                          ![b].rounds = @ + 1,
                                          ![b].threw  = {1}]
                /\ UNCHANGED <<uploadStatus, processingDetails>>
           ELSE /\ loops' = [loops EXCEPT
                        ![b].server    = <<Settle(outcome)>>,
                        ![b].rounds    = @ + 1,
                        ![b].threw     = {},
                        ![b].attempts  = att,
                        ![b].timer     = SingleReschedules(branch),
                        ![b].callbacks = IF SingleNotifies(branch) THEN @ + 1 ELSE @,
                        ![b].timeouts  = IF branch = "giveup" THEN @ + 1 ELSE @]
                /\ processingDetails' =
                     CASE branch = "finished" ->
                            <<Entry(l.filename, "complete", l.jobIds[1], NoError)>>
                       [] branch = "failed" ->
                            <<Entry(l.filename, "failed", l.jobIds[1], JobError)>>
                       [] OTHER -> processingDetails
                /\ uploadStatus' =
                     CASE branch = "finished" ->
                            Status("Document processed successfully!", <<>>)
                       [] branch = "failed" ->
                            Status("Processing failed", <<JobError>>)
                       [] branch = "again" ->
                            Status("Processing document...",
                                   <<Floor(att * 2, 60), (att * 2) % 60>>)
                       [] OTHER ->
                            Status("Processing is taking longer than expected...", <<>>)
        /\ UNCHANGED <<files, uploading, progress, inflight>>

----------------------------------------------------------------------------
(* pollJobsCompletion: the poller of several files *)

\* the 'failed' case left out
DisplayedNoFailed(status) ==
    IF status = "finished" THEN "complete" ELSE "processing"

\* jobStatus.status === 'finished' ? 'complete' : ... 'failed' ... : 'processing'
Displayed(status) ==
    IF status = "finished" THEN "complete"
    ELSE IF status = "failed" THEN "failed"
    ELSE "processing"

\* fileDetails.map((detail, index) => ...): statuses[index] is read for every
\* entry of fileDetails
MapThrows(fileDetails, statuses) == Len(fileDetails) > Len(statuses)

\* the list without the files whose job failed
UpdatedDetailsDropFailed(fileDetails, statuses) ==
    SelectSeqIdx(
        [i \in 1..Len(fileDetails) |->
            Entry(fileDetails[i].filename, Displayed(statuses[i]),
                  fileDetails[i].job_id, NoError)],
        {i \in 1..Len(fileDetails) : statuses[i] # "failed"}, 1)

UpdatedDetails(fileDetails, statuses) ==
    [i \in 1..Len(fileDetails) |->
        Entry(fileDetails[i].filename,
              Displayed(statuses[i]),
              fileDetails[i].job_id,
              IF statuses[i] = "failed" THEN JobError ELSE NoError)]

\* setProgress(prev => ({...prev, completed, failed}))
UpdatedProgress(prev, completed, failed) ==
    IF prev = NoProgress
    THEN <<[total |-> Undefined, successful |-> Undefined,
            failed |-> failed, completed |-> completed]>>
    ELSE <<[prev[1] EXCEPT !.completed = completed, !.failed = failed]>>

\* another round also when nothing is left to wait for
MultiReschedulesAlways(processing, attempts) == processing >= 0

\* whether checkJobs goes on to another round: if (processing > 0)
MultiReschedules(processing, attempts) == processing > 0

\* a request that threw taken for a failed job
CaughtAsFailed(outcome) == IF outcome = Thrown THEN "failed" ELSE outcome

\* catch { return { status: 'unknown' } }
Caught(outcome) == IF outcome = Thrown THEN "unknown" ELSE outcome

\* one run of checkJobs on the outcomes of its requests, one per job
checkJobs(b, answers) ==
    LET l          == loops[b]
        total      == Len(l.jobIds)
        statuses   == [i \in 1..total |-> Caught(answers[i])]
        completed  == Count(statuses, "finished")
        failed     == Count(statuses, "failed")
        processing == total - completed - failed
        again      == MultiReschedules(processing, l.attempts)
        att        == IF again THEN l.attempts + 1 ELSE l.attempts
        threw      == {i \in 1..total : answers[i] = Thrown}
        seen       == [i \in 1..total |->
                          IF answers[i] = Thrown THEN l.server[i] ELSE Settle(answers[i])]
    IN  /\ l.kind = "multi"
        /\ l.timer
        /\ Len(answers) = total
        /\ \A i \in 1..total : answers[i] \in Later(l.server[i]) \cup {Thrown}
        /\ IF MapThrows(l.fileDetails, statuses)
           THEN /\ loops' = [loops EXCEPT ![b].server = seen,
                                          ![b].timer  = FALSE,
                                          ![b].rounds = @ + 1,
                                          ![b].threw  = threw]
                /\ UNCHANGED <<uploadStatus, progress, processingDetails>>
           ELSE /\ loops' = [loops EXCEPT
                        ![b].server    = seen,
                        ![b].rounds    = @ + 1,
                        ![b].threw     = threw,
                        ![b].attempts  = att,
                        ![b].timer     = again,
                        ![b].callbacks = IF again THEN @ ELSE @ + 1]
                /\ processingDetails' = UpdatedDetails(l.fileDetails, statuses)
                /\ progress' = UpdatedProgress(progress, completed, failed)
                /\ uploadStatus' =
                     IF again
                     THEN Status("Processing: complete - elapsed",
                                 <<completed, total, Percent(completed, total),
                                   Floor(att * 3, 60), failed>>)
                     ELSE IF failed = 0
                     THEN Status("All documents processed successfully!", <<total>>)
                     ELSE Status("Processing complete: successful, failed",
                                 <<completed, failed>>)
        /\ UNCHANGED <<files, uploading, inflight>>

----------------------------------------------------------------------------
(* checkJobs, request by request *)

\* a request that has neither resolved nor thrown yet
Pending == "pending"

\* the requests of batch b that are running
InFlight(rs, b) == {r \in rs : r.batch = b}

\* the timer of checkJobs is set every time
FiresAnyTime(b) == loops[b].timer

\* whether the timer of checkJobs can fire: it is set after a round's await
\* has returned (and by pollJobsCompletion itself), so not while a round runs
Fires(b) == loops[b].timer /\ InFlight(requests, b) = {}

\* the number of the round that starts now
RoundStarting(b) ==
    IF InFlight(requests, b) = {} THEN loops[b].rounds + 1
    ELSE 1 + CHOOSE n \in {r.round : r \in InFlight(requests, b)} :
                 \A r \in InFlight(requests, b) : r.round <= n

\* checkJobs up to its await: jobIds.map starts one fetch per job
startRound(b) ==
    /\ loops[b].kind = "multi"
    /\ Fires(b)
    /\ requests' = requests \cup
          {[batch |-> b, round |-> RoundStarting(b), job |-> i, outcome |-> Pending] :
              i \in 1..Len(loops[b].jobIds)}
    /\ UNCHANGED <<uploadPanel, queryPanel, app>>

\* one fetch of a round resolves, or throws and is caught
resolveRequest(r, outcome) ==
    /\ r \in requests
    /\ r.outcome = Pending
    /\ outcome \in Later(loops[r.batch].server[r.job]) \cup {Thrown}
    /\ requests' = (requests \ {r}) \cup {[r EXCEPT !.outcome = outcome]}
    /\ UNCHANGED <<uploadPanel, queryPanel, app>>

\* Promise.all has one result per job
Joined(rs, b) ==
    /\ InFlight(rs, b) # {}
    /\ \A r \in InFlight(rs, b) : r.outcome # Pending

\* checkJobs from its await on
joinRound(b) ==
    /\ Joined(requests, b)
    /\ LET mine    == InFlight(requests, b)
           answers == [i \in 1..Len(loops[b].jobIds) |->
                          (CHOOSE r \in mine : r.job = i).outcome]
       IN  /\ checkJobs(b, answers)
           /\ requests' = requests \ mine
    /\ UNCHANGED <<queryPanel, app>>

----------------------------------------------------------------------------
(* QueryPanel, and App's handleQueryResult *)

Space == " "

Chars == {Space, "a"}

\* what the textarea can hold
Questions == UNION {[1..n -> Chars] : n \in 0..MaxQuestionLen}

RECURSIVE TrimStart(_)
TrimStart(q) ==
    IF q = <<>> THEN <<>>
    ELSE IF Head(q) = Space THEN TrimStart(Tail(q)) ELSE q

RECURSIVE TrimEnd(_)
TrimEnd(q) ==
    IF q = <<>> THEN <<>>
    ELSE IF q[Len(q)] = Space THEN TrimEnd(SubSeq(q, 1, Len(q) - 1)) ELSE q

\* String.prototype.trim
Trim(q) == TrimEnd(TrimStart(q))

\* the test without the trim
BlankNoTrim(q) == q = <<>>

\* !question.trim()
Blank(q) == Trim(q) = <<>>

\* the Search button: disabled={!question.trim() || querying}
SearchDisabled == Blank(question) \/ querying

\* what calls handleQuery: a click on Search, Ctrl+Enter in the textarea
Triggers == {"Search", "Ctrl+Enter"}

\* setQuestion, from the textarea or a sample question
setQuestion(q) ==
    /\ question' = q
    /\ UNCHANGED <<querying, queries, handled, answer, uploadPanel, requests, app>>

\* handleQuery up to its fetch
handleQuery(trigger) ==
    /\ trigger = "Search" => ~SearchDisabled
    /\ IF Blank(question)
       THEN /\ handled' = <<trigger, "return">>
            /\ UNCHANGED <<querying, queries>>
       ELSE /\ handled' = <<trigger, "fetch">>
            /\ querying' = TRUE
            /\ queries' = Append(queries, question)
    /\ UNCHANGED <<question, answer, uploadPanel, requests, app>>

\* what POST /query comes to: a failure as for an upload, or a 2xx response
\* with a body that response.json() parses or not
QueryResponses ==
    FailedResponses
    \cup {[kind |-> "http", status |-> 200, parsable |-> p, detail |-> NoDetail,
           message |-> ""] : p \in BOOLEAN}

\* a field the object does not have
Absent == "undefined"

\* the body of a response as parsed: a QueryResult of a 2xx response, else an
\* object with the detail, if any
Body(response) ==
    IF response.status \in 200..299
    THEN [query_type |-> "semantic", answer |-> "an answer", detail |-> NoDetail]
    ELSE [query_type |-> Absent, answer |-> Absent, detail |-> response.detail]

\* the message of the SyntaxError of response.json()
ParseMessage == "Unexpected token"

\* the object handleQuery's catch builds
QueryError(message) ==
    [query_type |-> "error", answer |-> "Query failed: " \o message, detail |-> NoDetail]

\* what handleQuery hands to onQueryResult
Delivered(response) ==
    IF response.kind = "network" THEN QueryError(response.message)
    ELSE IF ~response.parsable THEN QueryError(ParseMessage)
    ELSE Body(response)

\* handleQuery from the response of its fetch on, with App's handleQueryResult
queryAnswered(k, response) ==
    /\ k \in 1..Len(queries)
    /\ answer' = <<Delivered(response)>>
    /\ querying' = FALSE
    /\ queries' = SelectSeqIdx(queries, (1..Len(queries)) \ {k}, 1)
    /\ UNCHANGED <<question, handled, uploadPanel, requests, app>>

----------------------------------------------------------------------------
(* App: checkBackend and fetchMetrics *)

BackendUnavailable ==
    "Backend not available. Make sure it's running on http://localhost:8000"

\* the metrics snapshots GET /metrics can report
Snapshots == {[documents |-> n] : n \in 1..MaxSnapshots}

\* what calls fetchMetrics besides checkBackend: setInterval(fetchMetrics, 5000),
\* and a poller of DocumentUpload through onUploadSuccess
MetricsTriggers == {"interval", "onUploadSuccess"}

Without(s, k) == SelectSeqIdx(s, (1..Len(s)) \ {k}, 1)

\* the Retry button of the error screen: checkBackend up to its request
checkBackend ==
    /\ ~loading
    /\ backendError # NoBackendError
    /\ fetches' = Append(fetches, Fetch("health", "Retry"))
    /\ UNCHANGED <<metrics, backendError, loading, logged,
                   uploadPanel, requests, queryPanel>>

\* fetchMetrics up to its request
fetchMetrics(trigger) ==
    /\ fetches' = Append(fetches, Fetch("metrics", trigger))
    /\ UNCHANGED <<metrics, backendError, loading, logged,
                   uploadPanel, requests, queryPanel>>

\* api.health throws: fetch rejects or response.json() does (no test of
\* response.ok)
HealthThrows(response) == response.kind = "network" \/ ~response.parsable

\* checkBackend from the outcome of api.health on
healthAnswered(k, response) ==
    /\ k \in 1..Len(fetches)
    /\ fetches[k].call = "health"
    /\ IF HealthThrows(response)
       THEN /\ backendError' = <<BackendUnavailable>>
            /\ fetches' = Without(fetches, k)
       ELSE /\ backendError' = NoBackendError
            /\ fetches' = Append(Without(fetches, k), Fetch("metrics", "checkBackend"))
    /\ loading' = FALSE
    /\ UNCHANGED <<metrics, logged, uploadPanel, requests, queryPanel>>

\* api.getMetrics without its test of response.ok
GetMetricsThrowsNoOkTest(response) ==
    response.kind = "network" \/ ~response.parsable

\* api.getMetrics throws: fetch rejects, !response.ok, or response.json()
\* rejects
GetMetricsThrows(response) ==
    \/ response.kind = "network"
    \/ response.status \notin 200..299
    \/ ~response.parsable

\* the message of the error fetchMetrics catches
GetMetricsError(response) ==
    IF response.kind = "network" THEN response.message
    ELSE IF response.status \notin 200..299 THEN "Failed to fetch metrics"
    ELSE ParseMessage

\* what response.json() gives for a body that parses
MetricsBody(response, snapshot) ==
    IF response.status \in 200..299 THEN snapshot ELSE [detail |-> response.detail]

\* fetchMetrics from the outcome of api.getMetrics on
metricsAnswered(k, response, snapshot) ==
    /\ k \in 1..Len(fetches)
    /\ fetches[k].call = "metrics"
    /\ fetches' = Without(fetches, k)
    /\ IF GetMetricsThrows(response)
       THEN /\ logged' = <<"Failed to fetch metrics:", GetMetricsError(response)>>
            /\ UNCHANGED <<metrics, backendError>>
       ELSE /\ metrics' = <<MetricsBody(response, snapshot)>>
            /\ backendError' = NoBackendError
            /\ UNCHANGED logged
    /\ UNCHANGED <<loading, uploadPanel, requests, queryPanel>>

----------------------------------------------------------------------------
(* Specifications *)

OutcomeSeqs(n) == [1..n -> Outcomes]

RECURSIVE RoundsOf(_, _)
\* the rounds the pollers of batches 1..b have run
RoundsOf(ls, b) == IF b = 0 THEN 0 ELSE ls[b].rounds + RoundsOf(ls, b - 1)

\* what the user and the backend do to the panel
Panel ==
    \/ \E sel \in Selections : handleFileChange(sel)
    \/ handleUpload
    \/ \E response \in FailedResponses : uploadFailed(response)
    \/ \E hasJob \in BOOLEAN : uploadedOne(hasJob)
    \/ \E queued \in SUBSET (1..MaxSel + 1) :
          /\ inflight # <<>>
          /\ queued \subseteq 1..Len(inflight[1])
          /\ uploadedMany(queued)

\* a round of the poller of batch b
Round(b) ==
    \/ \E outcome \in Outcomes : checkStatus(b, outcome)
    \/ \E answers \in OutcomeSeqs(Len(loops[b].jobIds)) : checkJobs(b, answers)

\* Spec: up to MaxBatches batches, their pollers followed for RoundsSeen rounds
\* in all
Next ==
    \/ Len(loops) < MaxBatches /\ Panel /\ UNCHANGED <<requests, queryPanel, app>>
    \/ \E b \in 1..Len(loops) :
          /\ RoundsOf(loops, Len(loops)) < RoundsSeen
          /\ Round(b)
          /\ UNCHANGED <<requests, queryPanel, app>>

Spec == Init /\ [][Next]_vars

\* SpecLimit: one batch, its poller followed to its end (a poller of several
\* files for MaxMultiRounds rounds)
NextLimit ==
    \/ Len(loops) = 0 /\ Panel /\ UNCHANGED <<requests, queryPanel, app>>
    \/ \E b \in 1..Len(loops) :
          /\ loops[b].kind = "multi" => loops[b].rounds < MaxMultiRounds
          /\ Round(b)
          /\ UNCHANGED <<requests, queryPanel, app>>

SpecLimit == Init /\ [][NextLimit]_vars

\* SpecPair: pollJobCompletion(jobId, filename) and pollJobsCompletion([jobId],
\* [detail]) started on one queued file each (batch 1 and batch 2), the second
\* given in each round the outcome the first has just had
PairDetails == UploadDetails(2, Selection(1), {1})

InitPair ==
    /\ files = <<>>
    /\ uploading = FALSE
    /\ uploadStatus = Status("Upload complete! Processing document...", <<>>)
    /\ progress = <<[total |-> 1, successful |-> 1, failed |-> 0, completed |-> 0]>>
    /\ processingDetails = SubmittedDetails(PairDetails)
    /\ inflight = <<>>
    /\ loops = <<Loop(Selection(1), "single", <<<<1, 1>>>>, <<>>, Selection(1)[1], TRUE),
                 Loop(Selection(1), "multi", JobIdsOf(PairDetails), PairDetails,
                      Undefined, TRUE)>>
    /\ requests = {}
    /\ InitQuery
    /\ InitApp

\* the outcome a is the one the round before it, of batch b, had (a 'queued'
\* and a 'started' job are one case to both pollers)
SameOutcome(b, a) ==
    IF loops[b].threw # {} THEN a = Thrown
    ELSE a # Thrown /\ Settle(a) = loops[b].server[1]

NextPair ==
    \/ \E outcome \in Outcomes :
          /\ loops[1].rounds = loops[2].rounds
          /\ checkStatus(1, outcome)
          /\ UNCHANGED <<requests, queryPanel, app>>
    \/ \E answers \in OutcomeSeqs(1) :
          /\ loops[2].rounds < loops[1].rounds
          /\ SameOutcome(1, answers[1])
          /\ checkJobs(2, answers)
          /\ UNCHANGED <<requests, queryPanel, app>>

SpecPair == InitPair /\ [][NextPair]_vars

\* SpecJoin: one batch, the first RoundsSeen rounds of its poller, each status
\* request of checkJobs on its own
NextJoin ==
    \/ Len(loops) = 0 /\ Panel /\ UNCHANGED <<requests, queryPanel, app>>
    \/ \E b \in 1..Len(loops), outcome \in Outcomes :
          /\ loops[b].rounds < RoundsSeen
          /\ checkStatus(b, outcome)
          /\ UNCHANGED <<requests, queryPanel, app>>
    \/ \E b \in 1..Len(loops) : loops[b].rounds < RoundsSeen /\ startRound(b)
    \/ \E r \in requests, outcome \in Outcomes : resolveRequest(r, outcome)
    \/ \E b \in 1..Len(loops) : joinRound(b)

SpecJoin == Init /\ [][NextJoin]_vars

\* SpecQuery: the query panel, with up to MaxQueries requests in flight
NextQuery ==
    \/ \E q \in Questions : setQuestion(q)
    \/ \E trigger \in Triggers :
          /\ Blank(question) \/ Len(queries) < MaxQueries
          /\ handleQuery(trigger)
    \/ \E k \in 1..Len(queries), response \in QueryResponses : queryAnswered(k, response)

SpecQuery == Init /\ [][NextQuery]_vars

\* SpecApp: the health check and the metrics refresh of App, with up to
\* MaxFetches requests in flight
NextApp ==
    \/ Len(fetches) < MaxFetches /\ checkBackend
    \/ \E trigger \in MetricsTriggers :
          Len(fetches) < MaxFetches /\ fetchMetrics(trigger)
    \/ \E k \in 1..Len(fetches), response \in QueryResponses :
          healthAnswered(k, response)
    \/ \E k \in 1..Len(fetches), response \in QueryResponses, snapshot \in Snapshots :
          metricsAnswered(k, response, snapshot)

SpecApp == Init /\ [][NextApp]_vars

----------------------------------------------------------------------------
(* Properties *)

Batches == 1..Len(loops)

\* this step is a round of the poller of batch b
RoundOf(b) == Len(loops') >= b /\ loops'[b].rounds = loops[b].rounds + 1

\* the last round of batch b got a terminal status for every job
AllTerminalSeen(b) ==
    /\ loops[b].rounds > 0
    /\ loops[b].threw = {}
    /\ \A i \in 1..Len(loops[b].server) : Terminal(loops[b].server[i])

TerminalShown(st) == st \in {"complete", "failed"}

\* C1: every poller, of one file or of several, issues at most maxAttempts
\* rounds of status requests, however long the jobs stay non-terminal.
C1_RoundsBounded ==
    \A b \in Batches : loops[b].rounds <= maxAttempts

\* C2: the poller of a single file issues no status request beyond the
\* maxAttempts-th, shows the "taking longer than expected" text at most once
\* and leaves no timer behind once it has shown it.
C2_SingleStopsAtLimit ==
    \A b \in Batches :
        loops[b].kind = "single" =>
            /\ loops[b].rounds <= maxAttempts
            /\ loops[b].timeouts <= 1
            /\ loops[b].timeouts = 1 => ~loops[b].timer

\* C3: a file shown as complete or failed keeps that state through every
\* later polling round.
C3_TerminalAbsorbing ==
    [][(\E b \in Batches : RoundOf(b)) =>
          \A p \in 1..Len(processingDetails) :
              TerminalShown(processingDetails[p].status) =>
                  /\ p <= Len(processingDetails')
                  /\ processingDetails'[p].status = processingDetails[p].status]_vars

\* C4: a job whose status request threw in a round is shown after the round
\* as it was shown before it.
C4_ErrorKeepsState ==
    [][\A b \in Batches :
          RoundOf(b) =>
              \A i \in loops'[b].threw :
                  \A p \in 1..Len(processingDetails) :
                      processingDetails[p].jobId = loops[b].jobIds[i] =>
                          /\ p <= Len(processingDetails')
                          /\ processingDetails'[p].status = processingDetails[p].status]_vars

\* C5: a round in which a status request threw, run before the round limit,
\* leaves a timer for the next round.
C5_ErrorRetried ==
    [][\A b \in Batches :
          (RoundOf(b) /\ loops'[b].threw # {} /\ loops[b].attempts < maxAttempts)
              => loops'[b].timer]_vars

\* C6: once a later batch has been submitted, a round of an earlier batch's
\* poller changes nothing of what the panel shows and schedules no completion
\* callback.
C6_NoStaleResults ==
    [][\A b \in Batches :
          (RoundOf(b) /\ b < Len(loops)) =>
              /\ UNCHANGED display
              /\ loops'[b].callbacks = loops[b].callbacks]_vars

\* a poller that has stopped after a round that saw every job terminal, or
\* after giving up at the round limit
Ended(b) ==
    /\ ~loops[b].timer
    /\ AllTerminalSeen(b) \/ loops[b].timeouts > 0

\* C8: a poller that has ended, with all jobs terminal or at the round limit,
\* has scheduled the completion callback.
C8_AlwaysNotifies ==
    \A b \in Batches : Ended(b) => loops[b].callbacks >= 1

\* C7: the completion callback is scheduled at most once per batch, and a
\* poller whose last round saw every job terminal has no timer pending and
\* does nothing more.
C7_NotifiesOnce ==
    [][\A b \in Batches :
          /\ loops'[b].callbacks <= 1
          /\ AllTerminalSeen(b) => (~loops[b].timer /\ loops'[b] = loops[b])]_vars

\* a poller of several files has ended on its second round or later and has
\* scheduled the callback
C7_Witness ==
    \E b \in Batches :
        /\ loops[b].kind = "multi"
        /\ loops[b].rounds >= 2
        /\ AllTerminalSeen(b)
        /\ loops[b].callbacks = 1

\* C9: handleUpload on a selection of more than 20 files only sets the
\* "Maximum 20 files" text: no request is started, uploading stays false, the
\* selection, progress and processingDetails stay as they are, no poller is
\* created; and no request or poller ever carries more than 20 files.
C9_RejectsOverLimit ==
    [][/\ (Len(files) > MaxFilesPerUpload /\ handleUpload) =>
             /\ uploadStatus' = Status("Maximum 20 files allowed per upload", <<>>)
             /\ UNCHANGED <<files, uploading, progress, processingDetails, inflight, loops>>
       /\ inflight' # <<>> => Len(inflight'[1]) <= MaxFilesPerUpload
       /\ \A b \in 1..Len(loops') : Len(loops'[b].sent) <= MaxFilesPerUpload]_vars

\* the upload of a selection of 21 files has been refused
C9_Witness ==
    /\ Len(files) > MaxFilesPerUpload
    /\ Kind(uploadStatus) = "Maximum 20 files allowed per upload"
    /\ ~uploading
    /\ inflight = <<>>

\* details lists the files of sent, one entry each, in order
Tracks(details, sent) ==
    /\ Len(details) = Len(sent)
    /\ \A i \in 1..Len(sent) : details[i].filename = sent[i]

\* C10: an accepted submission of n files leaves n entries in
\* processingDetails, in the order of submission, each with the name of its
\* file; a polling round of the batch leaves the list as it is or writes such
\* a list again.
C10_TracksEveryFile ==
    [][/\ Len(loops') = Len(loops) + 1 =>
             /\ inflight # <<>>
             /\ Len(inflight[1]) \in 1..MaxFilesPerUpload
             /\ loops'[Len(loops')].sent = inflight[1]
             /\ Tracks(processingDetails', inflight[1])
       /\ \A b \in Batches :
             RoundOf(b) =>
                 \/ processingDetails' = processingDetails
                 \/ Tracks(processingDetails', loops[b].sent)]_vars

\* a round of a poller of several files has written the list, one job failed
C10_Witness ==
    \E b \in Batches :
        /\ loops[b].kind = "multi"
        /\ loops[b].rounds >= 1
        /\ Len(loops[b].sent) >= 2
        /\ Tracks(processingDetails, loops[b].sent)
        /\ \E p \in 1..Len(processingDetails) : processingDetails[p].status = "failed"
        /\ \E p \in 1..Len(processingDetails) : processingDetails[p].status = "complete"

\* the number of entries of details shown in state st
Shown(details, st) ==
    Cardinality({p \in 1..Len(details) : details[p].status = st})

\* a round of the poller of several files of batch b that gets as far as
\* applying its result
Applies(b) ==
    /\ RoundOf(b)
    /\ loops[b].kind = "multi"
    /\ Len(loops[b].fileDetails) <= Len(loops[b].jobIds)

\* C11: after every round of a poller of several files, the completed count,
\* the failed count and the number of files still shown as processing are
\* non-negative and add up to the number of jobs of the batch; another round
\* is scheduled exactly when some file is still processing.
C11_CountsAddUp ==
    [][\A b \in Batches :
          Applies(b) =>
              LET completed == progress'[1].completed
                  failed    == progress'[1].failed
                  still     == Shown(processingDetails', "processing")
                  total     == Len(loops[b].jobIds)
              IN  /\ completed >= 0
                  /\ failed >= 0
                  /\ completed + failed <= total
                  /\ completed + failed + still = total
                  /\ loops'[b].timer <=> still > 0]_vars

\* after its second round or a later one, a poller of several files has one
\* job finished and another still processing
C11_Witness ==
    \E b \in Batches :
        /\ loops[b].kind = "multi"
        /\ loops[b].rounds >= 2
        /\ loops[b].timer
        /\ progress # NoProgress
        /\ progress[1].completed = 1
        /\ Shown(processingDetails, "processing") = 1

\* C12: after every round of a poller of several files the snapshot agrees
\* with the aggregate: the completed and failed counts are the numbers of
\* files shown as complete and as failed, the percentage in the status text
\* and the one of the progress bar (completed / progress.total) are taken of
\* the number of jobs, and when the round ends the poller the counts are the
\* numbers of jobs the backend has as finished and as failed.
C12_SnapshotConsistent ==
    [][\A b \in Batches :
          Applies(b) =>
              LET completed == progress'[1].completed
                  failed    == progress'[1].failed
                  total     == Len(loops[b].jobIds)
                  args      == uploadStatus'[2]
              IN  /\ completed = Shown(processingDetails', "complete")
                  /\ failed = Shown(processingDetails', "failed")
                  /\ progress'[1].total = total
                  /\ loops'[b].timer =>
                        /\ Kind(uploadStatus') = "Processing: complete - elapsed"
                        /\ args[1] = completed
                        /\ args[2] = total
                        /\ args[3] * 2 * total <= 200 * completed + total
                        /\ (args[3] + 1) * 2 * total > 200 * completed + total
                  /\ ~loops'[b].timer =>
                        /\ completed = Count(loops'[b].server, "finished")
                        /\ failed = Count(loops'[b].server, "failed")
                        /\ completed + failed = total]_vars

\* C13: a file that got a job is shown as queued from the accepted submission
\* until the first status response (and only then as processing, complete or
\* failed).
C13_QueuedFirst ==
    [][/\ Len(loops') = Len(loops) + 1 =>
             \A p \in 1..Len(processingDetails') :
                 processingDetails'[p].jobId # NoJob =>
                     processingDetails'[p].status = "queued"
       /\ \A b \in Batches :
             (RoundOf(b) /\ loops[b].rounds = 0) =>
                 \A p \in 1..Len(processingDetails) :
                     processingDetails[p].jobId \in
                         {loops[b].jobIds[i] : i \in 1..Len(loops[b].jobIds)} =>
                             processingDetails[p].status = "queued"]_vars

\* the backend has answered 'failed' for the job with identifier id
ReportedFailed(id) ==
    \E b \in Batches :
        \E i \in 1..Len(loops[b].jobIds) :
            loops[b].jobIds[i] = id /\ loops[b].server[i] = "failed"

\* C17: a file is shown as failed only if the backend did not queue it at
\* submission or has answered 'failed' for its job, and the "Processing
\* failed" text is shown only for a job the backend answered 'failed' for;
\* a status request that threw or the round limit never does either.
C17_FailedOnlyFromServer ==
    /\ \A p \in 1..Len(processingDetails) :
           processingDetails[p].status = "failed" =>
               \/ /\ processingDetails[p].jobId = NoJob
                  /\ processingDetails[p].error = RejectError
               \/ ReportedFailed(processingDetails[p].jobId)
    /\ Kind(uploadStatus) = "Processing failed" =>
           \E b \in Batches : loops[b].kind = "single" /\ loops[b].server = <<"failed">>

\* a round in which the request for the first job threw while the second job
\* had failed: the first file is still processing, the second shown as failed
C17_Witness ==
    \E b \in Batches :
        /\ loops[b].kind = "multi"
        /\ loops[b].threw = {1}
        /\ loops[b].server[1] = Open
        /\ Len(processingDetails) = 2
        /\ processingDetails[1].status = "processing"
        /\ processingDetails[2].status = "failed"

\* C18: an upload that fails is shown at once as "Upload failed" with the
\* server's detail if the response has one, else "HTTP <status>" (the message
\* of the fetch error if there was no response); no poller is started, no
\* entry is added to processingDetails, no request stays in flight, uploading
\* is false again and the selection is kept for a new attempt.
C18_UploadFailureSurfaced ==
    [][\A r \in FailedResponses :
          uploadFailed(r) =>
              /\ Kind(uploadStatus') = "Upload failed"
              /\ uploadStatus'[2] =
                    <<CASE r.kind = "network" -> r.message
                        [] r.kind = "http" /\ r.parsable /\ r.detail # NoDetail -> r.detail
                        [] OTHER -> "HTTP " \o ToString(r.status)>>
              /\ loops' = loops
              /\ processingDetails' = processingDetails
              /\ progress' = progress
              /\ ~uploading'
              /\ inflight' = <<>>
              /\ files' = files]_vars

\* an upload was answered with status 500 and no detail: the panel says so and
\* is ready for a new attempt
C18_Witness ==
    /\ uploadStatus = Status("Upload failed", <<"HTTP 500">>)
    /\ ~uploading
    /\ inflight = <<>>
    /\ Len(files) \in 1..MaxFilesPerUpload
    /\ loops = <<>>
    /\ processingDetails = <<>>

\* C14: the poller of a single file and the poller of several files run on one
\* file agree: after the same outcomes, round by round, the file is shown in
\* the same state, both have a next round pending or both have stopped, and
\* both have scheduled onUploadSuccess as often.
C14_PollersAgree ==
    [][(RoundOf(2) /\ loops'[2].rounds = loops'[1].rounds) =>
          /\ processingDetails'[1].status = processingDetails[1].status
          /\ loops'[2].timer = loops'[1].timer
          /\ loops'[2].callbacks = loops'[1].callbacks]_vars

\* C15: the rounds of one batch are joins, one after the other: the requests
\* of a round are issued together, one per job; the round is applied (the
\* display and the poller change) only when every one of them has resolved or
\* thrown; and no request of another round is issued before that, so the
\* requests in flight for a batch are all of one round.
C15_RoundsAreJoins ==
    [][\A b \in Batches :
          LET before == InFlight(requests, b)
              after  == InFlight(requests', b)
              jobs   == 1..Len(loops[b].jobIds)
          IN  /\ \A r, s \in after : r.round = s.round
              /\ (before = {} /\ after # {}) =>
                    /\ {r.job : r \in after} = jobs
                    /\ \A r \in after : r.outcome = Pending
              /\ (loops[b].kind = "multi" /\ loops'[b] # loops[b]) =>
                    /\ RoundOf(b)
                    /\ {r.job : r \in before} = jobs
                    /\ \A r \in before : r.outcome # Pending
                    /\ after = {}
              /\ (loops[b].kind = "multi" /\ after # {}) => UNCHANGED display]_vars

\* the second round of a batch of two is in flight, one request resolved and
\* one not, after a first round that was applied
C15_Witness ==
    \E b \in Batches :
        /\ loops[b].kind = "multi"
        /\ loops[b].rounds = 1
        /\ Len(loops[b].jobIds) = 2
        /\ \E r, s \in InFlight(requests, b) :
              /\ r.round = 2 /\ s.round = 2
              /\ r.outcome = Pending
              /\ s.outcome # Pending

\* C16: no status request is issued for a job whose terminal status has been
\* seen: a request in flight is for a job that has not answered 'finished' or
\* 'failed' before.
C16_NoRequestAfterTerminal ==
    \A r \in requests :
        r.outcome = Pending => ~Terminal(loops[r.batch].server[r.job])

\* C19: a non-2xx response of POST /query reaches the answer display as an
\* error, never as a result, and the error carries the server's detail if the
\* response has one (what it says otherwise is left open here).  The same for
\* POST /upload and /upload-multiple is C18_UploadFailureSurfaced.
C19_QueryFailureSurfaced ==
    [][\A k \in 1..Len(queries), r \in QueryResponses :
          (queryAnswered(k, r) /\ r.kind = "http" /\ r.status \notin 200..299) =>
              /\ answer'[1].query_type = "error"
              /\ (r.parsable /\ r.detail # NoDetail) =>
                    answer'[1].answer \in {r.detail, "Query failed: " \o r.detail}]_vars

\* C20: a question that is empty or only whitespace is sent nowhere: a call of
\* handleQuery with it returns at once and leaves querying, the requests in
\* flight and the answer as they are, whatever called it; so every request in
\* flight carries a question with something in it.
C20_BlankRejected ==
    [][/\ \A k \in 1..Len(queries') : Trim(queries'[k]) # <<>>
       /\ \A trigger \in Triggers :
             (handleQuery(trigger) /\ Trim(question) = <<>>) =>
                 /\ handled' = <<trigger, "return">>
                 /\ UNCHANGED <<querying, queries, answer>>]_vars

\* Ctrl+Enter on a question of one space has just returned without a request,
\* after an earlier question was sent and answered
C20_Witness ==
    /\ question = <<Space>>
    /\ handled = <<"Ctrl+Enter", "return">>
    /\ queries = <<>>
    /\ ~querying
    /\ answer # NoAnswer

\* what the last round of batch b got for the job with identifier id, as the
\* panel displays it
DisplayOfJob(l, id) ==
    LET j == CHOOSE k \in 1..Len(l.jobIds) : l.jobIds[k] = id
    IN  IF j \in l.threw THEN "processing"
        ELSE IF l.server[j] = Open THEN "processing"
        ELSE Displayed(l.server[j])

\* C21: after every round of a poller of several files, every file that has a
\* job is shown in the state of its own job's response, by position in the
\* details the server gave, also when some files of the batch were not queued.
C21_OwnJobStatus ==
    [][\A b \in Batches :
          (RoundOf(b) /\ loops[b].kind = "multi") =>
              \A p \in 1..Len(loops[b].fileDetails) :
                  LET id == loops[b].fileDetails[p].job_id
                  IN  id # NoJob =>
                         /\ Len(processingDetails') >= p
                         /\ processingDetails'[p].jobId = id
                         /\ processingDetails'[p].status = DisplayOfJob(loops'[b], id)]_vars

\* the same, for the batches whose files were all queued
C21_OwnJobStatusAllQueued ==
    [][\A b \in Batches :
          Applies(b) =>
              \A p \in 1..Len(loops[b].fileDetails) :
                  LET id == loops[b].fileDetails[p].job_id
                  IN  /\ processingDetails'[p].jobId = id
                      /\ processingDetails'[p].status = DisplayOfJob(loops'[b], id)]_vars

\* the status texts that tell the user how a batch ended
FinalKinds ==
    {"Document processed successfully!", "Processing failed",
     "Processing is taking longer than expected...",
     "All documents processed successfully!",
     "Processing complete: successful, failed"}

\* C22: no poller stops without a word: every round of checkStatus or of
\* checkJobs leaves a timer for the next round or a final status text, also
\* when a status request throws and when some files were not queued.
C22_NoSilentStop ==
    [][\A b \in Batches :
          RoundOf(b) => (loops'[b].timer \/ Kind(uploadStatus') \in FinalKinds)]_vars

\* the same for the pollers whose requests all return and whose files were
\* all queued
C22_NoSilentStopWhenAnswered ==
    [][\A b \in Batches :
          (/\ RoundOf(b)
           /\ loops'[b].threw = {}
           /\ Len(loops[b].fileDetails) <= Len(loops[b].jobIds)) =>
              (loops'[b].timer \/ Kind(uploadStatus') \in FinalKinds)]_vars

\* C23: at most one upload is in flight: handleUpload sends a request only
\* while uploading is false, uploading is true exactly while a request is in
\* flight, every outcome of the request (accepted, rejected, failed) sets it
\* back to false, and the poller of an accepted batch is started with, and
\* runs regardless of, uploading being false.
C23_OneUploadInFlight ==
    [][/\ Len(inflight') <= 1
       /\ uploading' <=> inflight' # <<>>
       /\ Len(inflight') > Len(inflight) => (~uploading /\ uploading')
       /\ Len(inflight') < Len(inflight) => (uploading /\ ~uploading')
       /\ Len(loops') > Len(loops) =>
             /\ Len(inflight') < Len(inflight)
             /\ loops'[Len(loops')].timer <=> loops'[Len(loops')].jobIds # <<>>
       /\ \A b \in Batches : RoundOf(b) => uploading' = uploading]_vars

\* the upload has been answered, uploading is false again, and the poller of
\* the batch has run a round and waits for its next
C23_Witness ==
    /\ ~uploading
    /\ inflight = <<>>
    /\ \E b \in Batches : loops[b].rounds >= 1 /\ loops[b].timer

\* C24: at most one POST /query is in flight: a call of handleQuery, from the
\* Search button or from Ctrl+Enter, sends a request only while querying is
\* false and no earlier request is waiting for its response.
C24_OneQueryInFlight ==
    [][Len(queries') > Len(queries) => (~querying /\ queries = <<>>)]_vars

\* C25: a refresh of the metrics that fails (network error, non-2xx response,
\* body that does not parse), whatever started it, leaves metrics,
\* backendError and loading as they were; and backendError gets a message only
\* from a health check that failed.
C25_FailedRefreshChangesNothing ==
    [][/\ \A k \in 1..Len(fetches), r \in QueryResponses, s \in Snapshots :
             (/\ metricsAnswered(k, r, s)
              /\ (r.kind = "network" \/ r.status \notin 200..299 \/ ~r.parsable)) =>
                 UNCHANGED <<metrics, backendError, loading>>
       /\ (backendError' # backendError /\ backendError' # NoBackendError) =>
             \E k \in 1..Len(fetches) :
                 /\ fetches[k].call = "health"
                 /\ fetches' = Without(fetches, k)]_vars

\* a refresh has failed (it was logged) and the panel still shows the
\* snapshot of an earlier refresh, with no backend error
C25_Witness ==
    /\ logged = <<"Failed to fetch metrics:", "Failed to fetch metrics">>
    /\ metrics \in {<<s>> : s \in Snapshots}
    /\ backendError = NoBackendError
    /\ ~loading
    /\ fetches = <<>>

====
